---- MODULE Spec2Model ----
(***************************************************************************)
(* Neural Constellation particle simulation (src/unnamed/part_001).        *)
(*                                                                         *)
(* JavaScript Numbers are modelled as fixed-point integers with Scale      *)
(* units per 1.0 (a position of 150.25 is 15025, a speed of 4 is 400);     *)
(* every arithmetic result is rounded to the nearest representable value.  *)
(* The one non-finite value the program can produce, NaN, is the           *)
(* distinguished value NaN; comparisons with it are false and arithmetic   *)
(* on it yields NaN, as in IEEE 754.                                       *)
(*                                                                         *)
(* JavaScript runs every handler to completion.  A frame (animate) is      *)
(* modelled as the forced sequence  Rebuild -> UpdateParticle (once per    *)
(* particle, in collection order) -> AnimateEnd,  tracked by pc and idx;   *)
(* event handlers are enabled only between frames (pc = "idle").           *)
(***************************************************************************)
EXTENDS Integers, Sequences, FiniteSets, TLC

VARIABLES
    config,          \* the config object
    particles,       \* the particles array (sequence of Particle objects)
    mouse,           \* { x, y, down }
    shockwaves,      \* the shockwaves array
    cells,           \* spatialHash.cells: key -> array of particle references
    perm,            \* noise.perm, the permutation table of SimpleNoise
    time,            \* the timestamp handed to animate(time)
    connectionCount, \* the connection count shown by the stats display
    pc,              \* position inside animate: "idle" | "update"
    idx,             \* index of the next particle animate updates
    frame,           \* number of completed frames
    events,          \* number of input events handled
    nextRef,         \* next fresh object identity (for === on particles)
    spawnLog         \* history: the frame number at each shockwave push

vars == <<config, particles, mouse, shockwaves, cells, perm, time,
          connectionCount, pc, idx, frame, events, nextRef, spawnLog>>

----------------------------------------------------------------------------
(* Numbers *)

Scale == 100
NaN == -999999999

Width == 300
Height == 200
FrameMs == 16

Abs(a) == IF a < 0 THEN -a ELSE a
Sign(a) == IF a < 0 THEN -1 ELSE 1
Min(a, b) == IF a < b THEN a ELSE b

\* a / b for b > 0, rounded to the nearest integer (ties away from zero)
Round(a, b) == Sign(a) * ((2 * Abs(a) + b) \div (2 * b))

RECURSIVE SqrtIter(_, _, _)
SqrtIter(n, lo, hi) ==
    IF lo >= hi THEN lo
    ELSE LET mid == (lo + hi + 1) \div 2
         IN  IF mid * mid <= n THEN SqrtIter(n, mid, hi)
                               ELSE SqrtIter(n, lo, mid - 1)

\* Math.sqrt on a non-negative integer, rounded to the nearest integer
Sqrt(n) ==
    LET r == SqrtIter(n, 0, 46340)
    IN  IF n - r * r > r THEN r + 1 ELSE r

\* Math.floor(a / b) and Math.ceil(a / b) for b > 0
Floor(a, b) == a \div b
Ceil(a, b) == -((-a) \div b)

\* Math.sin on hundredths of a radian, result in hundredths
\* (Bhaskara's rational approximation on each half period)
Sin(a) ==
    LET x == a % 628
        h == IF x <= 314 THEN x ELSE x - 314
        q == h * (314 - h)
        s == Round(100 * 16 * q, 5 * 314 * 314 - 4 * q)
    IN  IF x <= 314 THEN s ELSE -s

----------------------------------------------------------------------------
(* parseInt on the value string of an input element.  A string is a        *)
(* sequence of one-character strings.                                      *)

Digits == <<"0", "1", "2", "3", "4", "5", "6", "7", "8", "9">>

DigitValue(c) == (CHOOSE i \in 1..10 : Digits[i] = c) - 1
IsDigit(c) == \E i \in 1..10 : Digits[i] = c

RECURSIVE ParseDigits(_, _, _)
ParseDigits(s, i, acc) ==
    IF i > Len(s) \/ ~IsDigit(s[i]) THEN acc
    ELSE ParseDigits(s, i + 1, 10 * acc + DigitValue(s[i]))

parseInt(s) ==
    LET neg   == Len(s) > 0 /\ s[1] = "-"
        start == IF Len(s) > 0 /\ s[1] \in {"-", "+"} THEN 2 ELSE 1
    IN  IF start > Len(s) \/ ~IsDigit(s[start]) THEN NaN
        ELSE IF neg THEN -ParseDigits(s, start, 0)
        ELSE ParseDigits(s, start, 0)

----------------------------------------------------------------------------
(* SimpleNoise *)

\* perm as the constructor leaves it: a permutation of 0..255 in perm[0..255]
\* repeated in perm[256..511]; seed <<a, b>> (a odd) names the permutation
\* i -> (a*i + b) mod 256, one of those the shuffle can produce.
\* perm is 0-indexed in the source: PermAt(t, i) is t[i].
BuildPerm(seed) == [i \in 1..512 |-> (seed[1] * ((i - 1) % 256) + seed[2]) % 256]
PermAt(t, i) == t[i + 1]

\* the constructor's shuffle (Fisher-Yates, i from 255 down to 1) for the
\* values j = Math.floor(Math.random() * (i + 1)) it draws: js[i] for
\* i <= Len(js), and j = i, which exchanges nothing, for every i above
swapPerm(t, i, j) == [t EXCEPT ![i + 1] = t[j + 1], ![j + 1] = t[i + 1]]

RECURSIVE shuffleFrom(_, _, _)
shuffleFrom(t, i, js) ==
    IF i < 1 THEN t ELSE shuffleFrom(swapPerm(t, i, js[i]), i - 1, js)

ShufflePerm(js) ==
    LET half == shuffleFrom([i \in 1..256 |-> i - 1], Len(js), js)
    IN  [i \in 1..512 |-> half[((i - 1) % 256) + 1]]

\* fade, lerp, grad on thousandths
fade(t) ==
    LET a  == Round(t * (6 * t - 15000), 1000) + 10000
        t3 == Round(Round(t * t, 1000) * t, 1000)
    IN  Round(t3 * a, 1000)

lerp(t, a, b) == a + Round(t * (b - a), 1000)

grad(hash, x, y) ==
    LET h == hash % 4
        u == IF h < 2 THEN x ELSE y
        v == IF h < 2 THEN y ELSE x
    IN  (IF h % 2 = 1 THEN -u ELSE u) + (IF h \div 2 = 1 THEN -2 * v ELSE 2 * v)

\* noise.noise(x, y) on thousandths, result in thousandths
noise(t, x, y) ==
    LET X  == Floor(x, 1000) % 256
        Y  == Floor(y, 1000) % 256
        xf == x - 1000 * Floor(x, 1000)
        yf == y - 1000 * Floor(y, 1000)
        u  == fade(xf)
        v  == fade(yf)
        A  == PermAt(t, X) + Y
        B  == PermAt(t, X + 1) + Y
    IN  lerp(v,
             lerp(u, grad(PermAt(t, A), xf, yf), grad(PermAt(t, B), xf - 1000, yf)),
             lerp(u, grad(PermAt(t, A + 1), xf, yf - 1000),
                     grad(PermAt(t, B + 1), xf - 1000, yf - 1000)))

----------------------------------------------------------------------------
(* Program constants *)

cellSize == 100          \* new SpatialHash(100)
mouseRadius == 250       \* applyMouseForce: const radius = 250
shockBand == 30          \* applyShockwaves: Math.abs(dist - wave.radius) < 30
maxRadius == 400         \* Shockwave.maxRadius
strength == 2            \* Shockwave.strength
maxAge == 60             \* Shockwave.maxAge
radiusStep == 8          \* Shockwave.update: this.radius += 8

modes == <<"emergent", "neural", "gravity", "chaos">>

palettes ==
    [m \in {"emergent", "neural", "gravity", "chaos"} |->
        CASE m = "emergent" -> <<"#ff6b35", "#4ecdc4", "#a855f7", "#fbbf24", "#ec4899">>
          [] m = "neural"   -> <<"#00ffff", "#0088ff", "#4400ff", "#8800ff", "#ff00ff">>
          [] m = "gravity"  -> <<"#ffaa00", "#ff6600", "#ff2200", "#ff0044", "#ff0088">>
          [] m = "chaos"    -> <<"#ffffff", "#ff0000", "#00ff00", "#0000ff", "#ffff00">>]

\* the config object as the script creates it (0.3 is 30, 0.98 is 98, 4 is 400)
InitialConfig(count) ==
    [particleCount      |-> count,
     connectionRadius   |-> 120 * Scale,
     attractionStrength |-> 30,
     friction           |-> 98,
     maxSpeed           |-> 4 * Scale,
     separationRadius   |-> 30 * Scale,
     alignmentRadius    |-> 50 * Scale,
     cohesionRadius     |-> 100 * Scale,
     mode               |-> "emergent"]

----------------------------------------------------------------------------
(* Particle *)

\* palette[Math.floor(Math.random() * palette.length)], r in thousandths
\* (mutant of PickColor: always the palette of the first mode)
PickColorEmergent(mode, r) ==
    palettes["emergent"][Floor(r * Len(palettes["emergent"]), 1000) + 1]

PickColor(mode, r) == palettes[mode][Floor(r * Len(palettes[mode]), 1000) + 1]

\* new Particle(): d holds the values Math.random() returns (thousandths)
\* for each field, ref is the identity of the new object
NewParticle(d, ref, mode) ==
    [ref        |-> ref,
     x          |-> Round(d.x * Width * Scale, 1000),
     y          |-> Round(d.y * Height * Scale, 1000),
     vx         |-> Round((d.vx - 500) * 2 * Scale, 1000),
     vy         |-> Round((d.vy - 500) * 2 * Scale, 1000),
     radius     |-> 2 * Scale + Round(d.radius * 3 * Scale, 1000),
     baseRadius |-> 2 * Scale + Round(d.radius * 3 * Scale, 1000),
     energy     |-> Round(d.energy * Scale, 1000),
     id         |-> d.id,
     pulsePhase |-> Round(d.pulsePhase * 628, 1000),
     color      |-> PickColor(mode, d.color)]

IsNaN(a) == a = NaN

RECURSIVE SumOver(_, _)
SumOver(f, S) ==
    IF S = {} THEN 0
    ELSE LET i == CHOOSE j \in S : TRUE
         IN  f[i] + SumOver(f, S \ {i})

\* the other particles whose position compares as a number
Others(p, ps) == {i \in 1..Len(ps) : ps[i].ref # p.ref /\ ~IsNaN(ps[i].x)}

DistSq(dx, dy) == dx * dx + dy * dy

\* applyFlocking: the velocity <<vx, vy>> it leaves in p
applyFlocking(p, ps, cfg) ==
    LET O     == Others(p, ps)
        dx    == [i \in O |-> ps[i].x - p.x]
        dy    == [i \in O |-> ps[i].y - p.y]
        dsq   == [i \in O |-> DistSq(dx[i], dy[i])]
        SepS  == {i \in O : dsq[i] < cfg.separationRadius * cfg.separationRadius
                            /\ dsq[i] > 0}
        AliS  == {i \in O : dsq[i] < cfg.alignmentRadius * cfg.alignmentRadius}
        CohS  == {i \in O : dsq[i] < cfg.cohesionRadius * cfg.cohesionRadius}
        sepX  == SumOver([i \in SepS |-> -Round(dx[i] * Scale, Sqrt(dsq[i]))], SepS)
        sepY  == SumOver([i \in SepS |-> -Round(dy[i] * Scale, Sqrt(dsq[i]))], SepS)
        sepCount == Cardinality(SepS)
        aliX  == SumOver([i \in AliS |-> ps[i].vx], AliS)
        aliY  == SumOver([i \in AliS |-> ps[i].vy], AliS)
        aliCount == Cardinality(AliS)
        cohX  == SumOver([i \in CohS |-> ps[i].x], CohS)
        cohY  == SumOver([i \in CohS |-> ps[i].y], CohS)
        cohCount == Cardinality(CohS)
        vx1   == IF sepCount > 0 THEN p.vx + Round(sepX * 15, sepCount * 100) ELSE p.vx
        vy1   == IF sepCount > 0 THEN p.vy + Round(sepY * 15, sepCount * 100) ELSE p.vy
        vx2   == IF aliCount > 0 THEN vx1 + Round((Round(aliX, aliCount) - vx1) * 5, 100)
                                 ELSE vx1
        vy2   == IF aliCount > 0 THEN vy1 + Round((Round(aliY, aliCount) - vy1) * 5, 100)
                                 ELSE vy1
        vx3   == IF cohCount > 0 THEN vx2 + Round((Round(cohX, cohCount) - p.x) * 5, 10000)
                                 ELSE vx2
        vy3   == IF cohCount > 0 THEN vy2 + Round((Round(cohY, cohCount) - p.y) * 5, 10000)
                                 ELSE vy2
    IN  <<vx3, vy3>>

\* applyNoiseDrift on velocity v
applyNoiseDrift(p, v, t, tm) ==
    LET tt == (tm * 3) \div 10              \* time * 0.0003, thousandths
        nx == Round(p.x, 20)                \* this.x * 0.005, thousandths
        ny == Round(p.y, 20)
    IN  <<v[1] + Round(noise(t, nx, ny + tt), 200),
          v[2] + Round(noise(t, nx + 100000, ny + tt), 200)>>

\* applyNeuralBehavior; r1, r2 are the two Math.random() values
applyNeuralBehavior(p, ps, cfg, r1, r2) ==
    LET O     == Others(p, ps)
        dsq   == [i \in O |-> DistSq(ps[i].x - p.x, ps[i].y - p.y)]
        N     == {i \in O : ~IsNaN(cfg.connectionRadius)
                            /\ dsq[i] < cfg.connectionRadius * cfg.connectionRadius * 2}
        \* weight = 1 / (1 + dist * 0.01), thousandths
        w     == [i \in N |-> Round(1000 * 10000, 10000 + Sqrt(dsq[i]))]
        count == SumOver(w, N)
        tX    == SumOver([i \in N |-> Round(ps[i].x * w[i], 1000)], N)
        tY    == SumOver([i \in N |-> Round(ps[i].y * w[i], 1000)], N)
        vx1   == IF count > 0 THEN p.vx + Round(Round(tX * 1000, count) - p.x, 1000)
                              ELSE p.vx
        vy1   == IF count > 0 THEN p.vy + Round(Round(tY * 1000, count) - p.y, 1000)
                              ELSE p.vy
    IN  <<vx1 + Round(r1 - 500, 100), vy1 + Round(r2 - 500, 100)>>

\* applyGravity
applyGravity(p, ps) ==
    LET centerX == (Width * Scale) \div 2
        centerY == (Height * Scale) \div 2
        dx      == centerX - p.x
        dy      == centerY - p.y
        distToCenter == Sqrt(DistSq(dx, dy))
        vx0     == IF distToCenter > 0 THEN p.vx + Round(dx * 2, distToCenter) ELSE p.vx
        vy0     == IF distToCenter > 0 THEN p.vy + Round(dy * 2, distToCenter) ELSE p.vy
        O       == Others(p, ps)
        odx     == [i \in O |-> ps[i].x - p.x]
        ody     == [i \in O |-> ps[i].y - p.y]
        dsq     == [i \in O |-> DistSq(odx[i], ody[i])]
        G       == {i \in O : dsq[i] > 100 * Scale * Scale /\ dsq[i] < 50000 * Scale * Scale}
        \* odx * (50 / distSq)
        fx      == [i \in G |-> Round(odx[i] * 50, Round(dsq[i], Scale * Scale))]
        fy      == [i \in G |-> Round(ody[i] * 50, Round(dsq[i], Scale * Scale))]
    IN  <<vx0 + SumOver(fx, G), vy0 + SumOver(fy, G)>>

\* applyChaos; r is the sequence of Math.random() values it draws
\* (r[4], r[5] are drawn only when r[3] < 0.01)
applyChaos(p, t, tm, r) ==
    LET vx1 == p.vx + Round((r[1] - 500) * 50, 1000)
        vy1 == p.vy + Round((r[2] - 500) * 50, 1000)
        jump == r[3] < 10
        vx2 == IF jump THEN vx1 + Round((r[4] - 500) * 10 * Scale, 1000) ELSE vx1
        vy2 == IF jump THEN vy1 + Round((r[5] - 500) * 10 * Scale, 1000) ELSE vy1
    IN  <<vx2 + Round(noise(t, Round(p.x, 10), tm), 50),
          vy2 + Round(noise(t, Round(p.y, 10), tm + 100000), 50)>>

\* applyMouseForce on velocity v
applyMouseForce(p, v, m, cfg) ==
    LET dx     == m.x - p.x
        dy     == m.y - p.y
        distSq == DistSq(dx, dy)
        radius == mouseRadius * Scale
    IN  IF distSq < radius * radius /\ distSq > 0
        THEN IF IsNaN(cfg.attractionStrength) THEN <<NaN, NaN>>
             ELSE LET dist  == Sqrt(distSq)
                      \* force * 10000
                      force == Round((radius - dist) * cfg.attractionStrength, radius)
                  IN  IF m.down
                      THEN <<v[1] - Round(dx * force * 2, dist * 100),
                             v[2] - Round(dy * force * 2, dist * 100)>>
                      ELSE <<v[1] + Round(dx * force, dist * 100),
                             v[2] + Round(dy * force, dist * 100)>>
        ELSE v

\* one iteration of the loop of applyShockwaves: wave w on velocity v
applyShockwave(p, v, w) ==
    LET dx   == p.x - w.x
        dy   == p.y - w.y
        dist == Sqrt(DistSq(dx, dy))
    IN  IF Abs(dist - w.radius) < shockBand * Scale
        THEN LET force == Round(strength * Scale * (maxAge - w.age), maxAge)
             IN  IF IsNaN(v[1]) \/ dist = 0 THEN <<NaN, NaN>>    \* 0 / 0
                 ELSE <<v[1] + Round(dx * force, dist), v[2] + Round(dy * force, dist)>>
        ELSE v

RECURSIVE applyShockwavesFrom(_, _, _, _)
applyShockwavesFrom(p, v, ws, k) ==
    IF k > Len(ws) THEN v
    ELSE applyShockwavesFrom(p, applyShockwave(p, v, ws[k]), ws, k + 1)

applyShockwaves(p, v, ws) == applyShockwavesFrom(p, v, ws, 1)

\* emergentBehavior of the second implementation (simulation.js): the
\* velocity <<vx, vy>> it leaves in p; r holds the two values of
\* Math.random() behind the random wandering.  (this.x - n.x) / d is 0 / 0
\* for a neighbour at the position of p, and NaN stays NaN in every sum.
emergentBehavior(p, ps, r) ==
    LET O     == Others(p, ps)
        d     == [i \in O |-> Sqrt(DistSq(p.x - ps[i].x, p.y - ps[i].y))]
        N     == {i \in O : d[i] < 80 * Scale}
        SepS  == {i \in N : d[i] < 30 * Scale}
        count == Cardinality(N)
        sepX  == SumOver([i \in SepS |-> Round((p.x - ps[i].x) * Scale, d[i])], SepS)
        sepY  == SumOver([i \in SepS |-> Round((p.y - ps[i].y) * Scale, d[i])], SepS)
        aliX  == Round(SumOver([i \in N |-> ps[i].vx], N), count)
        aliY  == Round(SumOver([i \in N |-> ps[i].vy], N), count)
        cohX  == Round(Round(SumOver([i \in N |-> ps[i].x], N), count) - p.x, 100)
        cohY  == Round(Round(SumOver([i \in N |-> ps[i].y], N), count) - p.y, 100)
        wanderX == Round((r[1] - 500) * 20, 1000)
        wanderY == Round((r[2] - 500) * 20, 1000)
    IN  IF \E i \in SepS : d[i] = 0 THEN <<NaN, NaN>>
        ELSE IF count > 0
        THEN <<p.vx + Round(sepX * 5 + aliX * 2 + cohX, 100) + wanderX,
               p.vy + Round(sepY * 5 + aliY * 2 + cohY, 100) + wanderY>>
        ELSE <<p.vx + wanderX, p.vy + wanderY>>

\* (mutant of modeForce: the emergent case leaves applyFlocking out)
modeForceNoFlocking(p, ps, cfg, t, tm, r) ==
    CASE cfg.mode = "emergent" -> applyNoiseDrift(p, <<p.vx, p.vy>>, t, tm)
      [] cfg.mode = "neural"   -> applyNeuralBehavior(p, ps, cfg, r[1], r[2])
      [] cfg.mode = "gravity"  -> applyGravity(p, ps)
      [] cfg.mode = "chaos"    -> applyChaos(p, t, tm, r)

\* update, "Apply mode-specific forces": the switch on config.mode;
\* r holds the Math.random() values drawn
modeForce(p, ps, cfg, t, tm, r) ==
    CASE cfg.mode = "emergent" -> applyNoiseDrift(p, applyFlocking(p, ps, cfg), t, tm)
      [] cfg.mode = "neural"   -> applyNeuralBehavior(p, ps, cfg, r[1], r[2])
      [] cfg.mode = "gravity"  -> applyGravity(p, ps)
      [] cfg.mode = "chaos"    -> applyChaos(p, t, tm, r)

\* update, "Apply mode-specific forces" to "Apply shockwaves": the velocity
\* the three force steps leave
applyForces(p, ps, cfg, m, ws, t, tm, r) ==
    applyShockwaves(p, applyMouseForce(p, modeForce(p, ps, cfg, t, tm, r), m, cfg), ws)

\* update, "Friction"
applyFriction(v, cfg) == <<Round(v[1] * cfg.friction, 100), Round(v[2] * cfg.friction, 100)>>

\* Math.sqrt(vx * vx + vy * vy), in thousandths
speedOf(v) == Sqrt((v[1] * v[1] + v[2] * v[2]) * 100)

\* update, "Speed limit"
limitSpeed(v, speed, cfg) ==
    IF speed > cfg.maxSpeed * 10
    THEN <<Round(v[1] * cfg.maxSpeed * 10, speed), Round(v[2] * cfg.maxSpeed * 10, speed)>>
    ELSE v

\* update, "Boundary wrapping" of one coordinate against canvas.width / height
wrap(a, limit) == IF a < 0 THEN limit ELSE IF a > limit THEN 0 ELSE a

\* update, "Update energy based on movement"
energyOf(e, speed) == Min(Scale, Round(e * 99, 100) + Round(speed * 5, 1000))

\* (mutant of pulse: the pulsing radius is written to baseRadius as well)
pulseRebasing(p, phase) ==
    [p EXCEPT !.pulsePhase = phase,
              !.radius = Round(p.baseRadius
                               * (10000 + Sin(phase) * 30 + p.energy * 50), 10000),
              !.baseRadius = Round(p.baseRadius
                               * (10000 + Sin(phase) * 30 + p.energy * 50), 10000)]

\* update, "Pulsing radius", on the particle with its new energy
pulse(p, phase) ==
    [p EXCEPT !.pulsePhase = phase,
              !.radius = Round(p.baseRadius
                               * (10000 + Sin(phase) * 30 + p.energy * 50), 10000)]

\* update from "Update position" on: v is the limited velocity, speed the
\* speed before the limit
move(p, v, speed) ==
    pulse([p EXCEPT !.vx = v[1], !.vy = v[2],
                    !.x = wrap(p.x + v[1], Width * Scale),
                    !.y = wrap(p.y + v[2], Height * Scale),
                    !.energy = energyOf(p.energy, speed)],
          p.pulsePhase + 5 + Round(energyOf(p.energy, speed), 10))

\* a particle every derived Number of which is NaN
allNaN(p) ==
    [p EXCEPT !.vx = NaN, !.vy = NaN, !.x = NaN, !.y = NaN,
              !.energy = NaN, !.pulsePhase = NaN, !.radius = NaN]

\* update from "Friction" on, for the velocity v the forces left
integrate(p, v, cfg) ==
    IF IsNaN(v[1]) THEN allNaN(p)
    ELSE move(p, limitSpeed(applyFriction(v, cfg), speedOf(applyFriction(v, cfg)), cfg),
              speedOf(applyFriction(v, cfg)))

\* the whole of Particle.update(particles, time): the particle it leaves
update(p, ps, cfg, m, ws, t, tm, r) ==
    IF IsNaN(p.x) \/ IsNaN(p.vx) THEN p      \* NaN + anything is NaN
    ELSE integrate(p, applyForces(p, ps, cfg, m, ws, t, tm, r), cfg)

----------------------------------------------------------------------------
(* Shockwave *)

Shockwave(x, y) == [x |-> x, y |-> y, radius |-> 0, age |-> 0]

\* (mutant of ShockwaveAlive: the bounds taken inclusive)
ShockwaveAliveInclusive(w) == w.age <= maxAge /\ w.radius <= maxRadius * Scale

\* (mutant of ShockwaveUpdate: the radius grows by half the step)
ShockwaveUpdateSlow(w) ==
    [w EXCEPT !.radius = @ + (radiusStep * Scale) \div 2, !.age = @ + 1]

\* Shockwave.update(): the wave it leaves, and the value it returns
ShockwaveUpdate(w) == [w EXCEPT !.radius = @ + radiusStep * Scale, !.age = @ + 1]
ShockwaveAlive(w) == w.age < maxAge /\ w.radius < maxRadius * Scale

\* (mutant of FilterShockwaves: the waves are updated and all of them kept)
FilterShockwavesKeepAll(ws) == [k \in 1..Len(ws) |-> ShockwaveUpdate(ws[k])]

\* shockwaves.filter(w => w.update())
FilterShockwaves(ws) ==
    SelectSeq([k \in 1..Len(ws) |-> ShockwaveUpdate(ws[k])], ShockwaveAlive)

----------------------------------------------------------------------------
(* SpatialHash *)

\* (mutant of clear: the buckets are kept)
clearNothing(c) == c

\* clear(): this.cells.clear()
clear(c) == << >>

\* (mutant of getKey: the cell coordinates are rounded to the nearest cell)
getKeyRounded(x, y) ==
    IF IsNaN(x) \/ IsNaN(y) THEN <<NaN, NaN>>
    ELSE <<Round(x, cellSize * Scale), Round(y, cellSize * Scale)>>

\* getKey(x, y); the string `${cx},${cy}` is the pair <<cx, cy>>
getKey(x, y) ==
    IF IsNaN(x) \/ IsNaN(y) THEN <<NaN, NaN>>
    ELSE <<Floor(x, cellSize * Scale), Floor(y, cellSize * Scale)>>

\* insert(particle)
insert(c, p) ==
    LET key == getKey(p.x, p.y)
    IN  IF key \in DOMAIN c THEN [c EXCEPT ![key] = Append(@, p.ref)]
        ELSE (key :> <<p.ref>>) @@ c

RECURSIVE insertAllFrom(_, _, _)
insertAllFrom(c, ps, k) ==
    IF k > Len(ps) THEN c ELSE insertAllFrom(insert(c, ps[k]), ps, k + 1)

\* animate: spatialHash.clear(); for (let p of particles) spatialHash.insert(p)
rebuild(c, ps) == insertAllFrom(clear(c), ps, 1)

\* (mutant of queryReach: Math.floor for Math.ceil)
queryReachFloor(radius) == IF IsNaN(radius) THEN -1 ELSE Floor(radius, cellSize * Scale)

\* the number r = Math.ceil(radius / cellSize) of query; the loops run for
\* i, j in -r..r, which is no iteration when r is NaN or negative
queryReach(radius) == IF IsNaN(radius) THEN -1 ELSE Ceil(radius, cellSize * Scale)

RECURSIVE queryFrom(_, _, _, _, _)
queryFrom(c, cx, cy, r, k) ==
    IF r < 0 \/ k >= (2 * r + 1) * (2 * r + 1) THEN << >>
    ELSE LET i   == (k \div (2 * r + 1)) - r
             j   == (k % (2 * r + 1)) - r
             key == IF IsNaN(cx) THEN <<NaN, NaN>> ELSE <<cx + i, cy + j>>
         IN  (IF key \in DOMAIN c THEN c[key] ELSE << >>)
             \o queryFrom(c, cx, cy, r, k + 1)

\* query(x, y, radius): the sequence of references it returns
query(c, x, y, radius) ==
    LET key == getKey(x, y)
    IN  queryFrom(c, key[1], key[2], queryReach(radius), 0)

\* animate's stats: the count behind the "Connections" display
countConnections(c, ps, cfg) ==
    LET n == [k \in 1..Len(ps) |->
                 Len(SelectSeq(query(c, ps[k].x, ps[k].y, cfg.connectionRadius),
                               LAMBDA q : q # ps[k].ref))]
    IN  SumOver(n, 1..Len(ps)) \div 2

----------------------------------------------------------------------------
(* Bounds and input sets *)

InitCount == 2       \* particles created by initParticles
MaxFrames == 2       \* frames animated in Spec
MaxEvents == 2       \* input events handled in Spec
LifeFrames == 52     \* frames animated in LifeSpec
LifeEvents == 2      \* presses handled in LifeSpec

\* values Math.random() returns (thousandths) in the force and colour draws
Rand == {0, 500}

\* the random values one new Particle() draws
Draw(x, y, vx, vy, c) ==
    [x |-> x, y |-> y, vx |-> vx, vy |-> vy, radius |-> 500, energy |-> 200,
     id |-> c, pulsePhase |-> 250, color |-> c]

Draws ==
    { Draw(500, 500, 500, 500, 100),    \* at the field centre, at rest
      Draw(500, 500, 750, 250, 300),    \* at the field centre, moving
      Draw(1, 2, 0, 0, 700) }           \* next to the top left corner, leaving

LifeDraws == { Draw(500, 500, 500, 500, 100) }

\* pointer positions (clientX, clientY)
Points == { <<150 * Scale, 100 * Scale>>, <<0, 0>>, <<290 * Scale, 10 * Scale>> }

\* value strings of the three range inputs
CountInputs == { <<"0">>, <<"1">>, <<"3">>, <<"-", "1">>, <<"x">> }
RadiusInputs == { <<"5", "0">>, <<"2", "5", "0">>, <<"0">>, <<"-", "5">>, <<"x">> }
AttractionInputs == { <<"1", "0", "0", "0">>, <<"-", "5", "0">>, <<"x">> }

\* seeds of the permutation tables of SimpleNoise
PermSeeds == { <<77, 13>> }

\* the Math.random() values a mode's force draws for one particle:
\* <<r1, r2>> in neural, <<r1, r2, r3>> in chaos and, when r3 < 0.01 makes
\* the particle jump, <<r1, r2, r3, r4, r5>>
ForceDraws(mode) ==
    CASE mode = "neural" -> { <<0, 500>>, <<900, 100>> }
      [] mode = "chaos"  -> { <<0, 500, 500>>, <<900, 100, 5, 0, 999>> }
      [] OTHER -> { << >> }

----------------------------------------------------------------------------
(* Initial state: the script has run to its last line *)

InitWith(draws, count) ==
    /\ \E ds \in [1..count -> draws] :
           particles = [k \in 1..count |-> NewParticle(ds[k], k, "emergent")]
    /\ config = InitialConfig(count)
    /\ mouse = [x |-> 0, y |-> 0, down |-> FALSE]
    /\ shockwaves = << >>
    /\ cells = << >>
    /\ \E seed \in PermSeeds : perm = BuildPerm(seed)
    /\ time = 0
    /\ connectionCount = 0
    /\ pc = "idle"
    /\ idx = 1
    /\ frame = 0
    /\ events = 0
    /\ nextRef = count + 1
    /\ spawnLog = << >>

Init == InitWith(Draws, InitCount)

----------------------------------------------------------------------------
(* animate(time) *)

\* (mutant of Rebuild: the shockwaves are aged at the head of the frame)
RebuildAging(maxFrames) ==
    /\ pc = "idle"
    /\ frame < maxFrames
    /\ time' = time + FrameMs
    /\ cells' = rebuild(cells, particles)
    /\ shockwaves' = FilterShockwaves(shockwaves)
    /\ pc' = "update"
    /\ idx' = 1
    /\ UNCHANGED <<config, particles, mouse, perm, connectionCount,
                   frame, events, nextRef, spawnLog>>

\* the head of animate: the spatial hash is cleared and rebuilt
Rebuild(maxFrames) ==
    /\ pc = "idle"
    /\ frame < maxFrames
    /\ time' = time + FrameMs
    /\ cells' = rebuild(cells, particles)
    /\ pc' = "update"
    /\ idx' = 1
    /\ UNCHANGED <<config, particles, mouse, shockwaves, perm, connectionCount,
                   frame, events, nextRef, spawnLog>>

\* (mutant of UpdateParticle: the noise calls of the update exchange two
\* entries of the permutation table)
UpdateParticleShuffling ==
    /\ pc = "update"
    /\ idx <= Len(particles)
    /\ \E r \in ForceDraws(config.mode) :
           particles' = [particles EXCEPT ![idx] =
                            update(particles[idx], particles, config, mouse,
                                   shockwaves, perm, time, r)]
    /\ idx' = idx + 1
    /\ perm' = swapPerm(swapPerm(perm, 0, 4), 256, 260)
    /\ UNCHANGED <<config, mouse, shockwaves, cells, time, connectionCount,
                   pc, frame, events, nextRef, spawnLog>>

\* one iteration of  for (let p of particles) p.update(particles, time)
UpdateParticle ==
    /\ pc = "update"
    /\ idx <= Len(particles)
    /\ \E r \in ForceDraws(config.mode) :
           particles' = [particles EXCEPT ![idx] =
                            update(particles[idx], particles, config, mouse,
                                   shockwaves, perm, time, r)]
    /\ idx' = idx + 1
    /\ UNCHANGED <<config, mouse, shockwaves, cells, perm, time, connectionCount,
                   pc, frame, events, nextRef, spawnLog>>

\* the tail of animate: the shockwaves are aged, the stats recomputed
AnimateEnd ==
    /\ pc = "update"
    /\ idx > Len(particles)
    /\ shockwaves' = FilterShockwaves(shockwaves)
    /\ connectionCount' = countConnections(cells, particles, config)
    /\ frame' = frame + 1
    /\ pc' = "idle"
    /\ UNCHANGED <<config, particles, mouse, cells, perm, time, idx, events,
                   nextRef, spawnLog>>

----------------------------------------------------------------------------
(* Event handlers *)

Handled(maxEvents) ==
    /\ pc = "idle"
    /\ events < maxEvents
    /\ events' = events + 1

\* mousemove, touchmove
MouseMove(maxEvents) ==
    /\ Handled(maxEvents)
    /\ \E pt \in Points : mouse' = [mouse EXCEPT !.x = pt[1], !.y = pt[2]]
    /\ UNCHANGED <<config, particles, shockwaves, cells, perm, time,
                   connectionCount, pc, idx, frame, nextRef, spawnLog>>

\* (mutant of MouseDown: the shockwave is pushed, mouse.down is left alone)
MouseDownNoFlag(maxEvents) ==
    /\ Handled(maxEvents)
    /\ shockwaves' = Append(shockwaves, Shockwave(mouse.x, mouse.y))
    /\ spawnLog' = Append(spawnLog, frame)
    /\ UNCHANGED <<mouse, config, particles, cells, perm, time, connectionCount,
                   pc, idx, frame, nextRef>>

\* mousedown
MouseDown(maxEvents) ==
    /\ Handled(maxEvents)
    /\ mouse' = [mouse EXCEPT !.down = TRUE]
    /\ shockwaves' = Append(shockwaves, Shockwave(mouse.x, mouse.y))
    /\ spawnLog' = Append(spawnLog, frame)
    /\ UNCHANGED <<config, particles, cells, perm, time, connectionCount, pc, idx,
                   frame, nextRef>>

\* mouseup, touchend
MouseUp(maxEvents) ==
    /\ Handled(maxEvents)
    /\ mouse' = [mouse EXCEPT !.down = FALSE]
    /\ UNCHANGED <<config, particles, shockwaves, cells, perm, time,
                   connectionCount, pc, idx, frame, nextRef, spawnLog>>

\* touchstart
TouchStart(maxEvents) ==
    /\ Handled(maxEvents)
    /\ \E pt \in Points :
           /\ mouse' = [x |-> pt[1], y |-> pt[2], down |-> TRUE]
           /\ shockwaves' = Append(shockwaves, Shockwave(pt[1], pt[2]))
    /\ spawnLog' = Append(spawnLog, frame)
    /\ UNCHANGED <<config, particles, cells, perm, time, connectionCount, pc, idx,
                   frame, nextRef>>

\* (mutant of NextMode: the index is advanced without the wrap)
NextModeNoWrap(m) ==
    LET currentIndex == CHOOSE i \in 1..Len(modes) : modes[i] = m
    IN  modes[Min(currentIndex + 1, Len(modes))]

\* keydown with e.code === 'Space'
NextMode(m) ==
    LET currentIndex == CHOOSE i \in 1..Len(modes) : modes[i] = m
    IN  modes[(currentIndex % Len(modes)) + 1]

KeydownSpace(maxEvents) ==
    /\ Handled(maxEvents)
    /\ config' = [config EXCEPT !.mode = NextMode(config.mode)]
    /\ \E rs \in [1..Len(particles) -> Rand] :
           particles' = [k \in 1..Len(particles) |->
                            [particles[k] EXCEPT
                                !.color = PickColor(NextMode(config.mode), rs[k])]]
    /\ UNCHANGED <<mouse, shockwaves, cells, perm, time, connectionCount, pc, idx,
                   frame, nextRef, spawnLog>>

\* (mutant of splice: the run that stays begins at the second element)
spliceSkipFirst(ps, start) ==
    IF IsNaN(start) \/ start < 0 THEN << >>
    ELSE SubSeq(ps, 2, Min(start + 1, Len(ps)))

\* (mutant of splice: one element too many stays)
spliceOffByOne(ps, start) ==
    SubSeq(ps, 1, IF IsNaN(start) THEN 0 ELSE Min(Abs(start) + 1, Len(ps)))

\* particles.splice(start): the elements that stay
splice(ps, start) ==
    LET from == IF IsNaN(start) THEN 0
                ELSE IF start < 0 THEN (IF Len(ps) + start < 0 THEN 0 ELSE Len(ps) + start)
                ELSE Min(start, Len(ps))
    IN  SubSeq(ps, 1, from)

\* the particleCount input handler
ParticleCountInput(maxEvents) ==
    /\ Handled(maxEvents)
    /\ \E value \in CountInputs :
           LET newCount == parseInt(value)
           IN  /\ IF ~IsNaN(newCount) /\ newCount > Len(particles)
                  THEN \E ds \in [1..(newCount - Len(particles)) -> Draws] :
                         /\ particles' = particles \o
                                [k \in 1..(newCount - Len(particles)) |->
                                    NewParticle(ds[k], nextRef + k - 1, config.mode)]
                         /\ nextRef' = nextRef + newCount - Len(particles)
                  ELSE /\ particles' = splice(particles, newCount)
                       /\ nextRef' = nextRef
               /\ config' = [config EXCEPT !.particleCount = newCount]
    /\ UNCHANGED <<mouse, shockwaves, cells, perm, time, connectionCount, pc, idx,
                   frame, spawnLog>>

\* the connectionRadius input handler
ConnectionRadiusInput(maxEvents) ==
    /\ Handled(maxEvents)
    /\ \E value \in RadiusInputs :
           LET n == parseInt(value)
           IN  config' = [config EXCEPT
                             !.connectionRadius = IF IsNaN(n) THEN NaN ELSE n * Scale]
    /\ UNCHANGED <<particles, mouse, shockwaves, cells, perm, time,
                   connectionCount, pc, idx, frame, nextRef, spawnLog>>

\* the attraction input handler: parseInt(value) / 100
AttractionInput(maxEvents) ==
    /\ Handled(maxEvents)
    /\ \E value \in AttractionInputs :
           config' = [config EXCEPT !.attractionStrength = parseInt(value)]
    /\ UNCHANGED <<particles, mouse, shockwaves, cells, perm, time,
                   connectionCount, pc, idx, frame, nextRef, spawnLog>>

----------------------------------------------------------------------------
(* Specifications *)

Next ==
    \/ Rebuild(MaxFrames)
    \/ UpdateParticle
    \/ AnimateEnd
    \/ MouseMove(MaxEvents)
    \/ MouseDown(MaxEvents)
    \/ MouseUp(MaxEvents)
    \/ TouchStart(MaxEvents)
    \/ KeydownSpace(MaxEvents)
    \/ ParticleCountInput(MaxEvents)
    \/ ConnectionRadiusInput(MaxEvents)
    \/ AttractionInput(MaxEvents)

Spec == Init /\ [][Next]_vars

\* The life of a shockwave: one resting particle, presses and frames only
LifeInit == InitWith(LifeDraws, 1)

LifeNext ==
    \/ Rebuild(LifeFrames)
    \/ UpdateParticle
    \/ AnimateEnd
    \/ MouseDown(LifeEvents)

LifeSpec == LifeInit /\ [][LifeNext]_vars

\* The same, with the frame loop kept going: animate ends by asking for the
\* next frame, so a frame that can start does start; the particle loop of a
\* started frame is a synchronous for loop and does not stay at a particle;
\* and the tail of animate follows it.
FairEvents == 1

LifeFairNext ==
    \/ Rebuild(LifeFrames)
    \/ UpdateParticle
    \/ AnimateEnd
    \/ MouseDown(FairEvents)

LifeFairSpec ==
    /\ LifeInit
    /\ [][LifeFairNext]_vars
    /\ WF_vars(Rebuild(LifeFrames))
    /\ []<>(~(pc = "update" /\ idx <= Len(particles)))
    /\ WF_vars(AnimateEnd)

\* Mode switches: two resting particles, a frame, Space presses and pointer
\* presses.
ModeFrames == 1
ModeEvents == 5

ModeInit == InitWith(LifeDraws, 2)

ModeNext ==
    \/ Rebuild(ModeFrames)
    \/ UpdateParticle
    \/ AnimateEnd
    \/ KeydownSpace(ModeEvents)
    \/ MouseDown(ModeEvents)

ModeSpec == ModeInit /\ [][ModeNext]_vars

\* Two particles created by new Particle(x, y) at given positions, 10 units
\* apart, at rest (Math.random() = 0.5 for vx and vy), in emergent mode;
\* frames run and the pointer moves.
PairFrames == 1
PairEvents == 1
PairAnchors == { <<150 * Scale, 100 * Scale>>, <<60 * Scale, 140 * Scale>>,
                 <<240 * Scale, 50 * Scale>> }
PairOffsets == { <<10 * Scale, 0>>, <<0, 10 * Scale>>, <<-10 * Scale, 0>>,
                 <<6 * Scale, 8 * Scale>>, <<-8 * Scale, 6 * Scale>>,
                 <<6 * Scale, -8 * Scale>> }
PairSeeds == { <<77, 13>>, <<5, 200>>, <<129, 64>> }

ParticleAt(x, y, ref, mode) ==
    [NewParticle(Draw(500, 500, 500, 500, 100), ref, mode) EXCEPT !.x = x, !.y = y]

PairInit ==
    /\ \E a \in PairAnchors, o \in PairOffsets :
           particles = << ParticleAt(a[1], a[2], 1, "emergent"),
                          ParticleAt(a[1] + o[1], a[2] + o[2], 2, "emergent") >>
    /\ config = InitialConfig(2)
    /\ mouse = [x |-> 0, y |-> 0, down |-> FALSE]
    /\ shockwaves = << >>
    /\ cells = << >>
    /\ \E seed \in PairSeeds : perm = BuildPerm(seed)
    /\ time = 0
    /\ connectionCount = 0
    /\ pc = "idle"
    /\ idx = 1
    /\ frame = 0
    /\ events = 0
    /\ nextRef = 3
    /\ spawnLog = << >>

PairNext ==
    \/ Rebuild(PairFrames)
    \/ UpdateParticle
    \/ AnimateEnd
    \/ MouseMove(PairEvents)

PairSpec == PairInit /\ [][PairNext]_vars

\* One particle created by new Particle(x, y), a permutation table out of
\* the constructor's shuffle; frames run and the mode is switched.
NoiseFrames == 3
NoiseEvents == 3
NoiseAnchors == { <<140 * Scale, 99 * Scale>>, <<60 * Scale, 99 * Scale>>,
                  <<150 * Scale, 100 * Scale>>, <<70 * Scale, 50 * Scale>> }
NoiseShuffles == { << >>, <<1, 1, 2, 3, 3>>, <<0, 2, 0, 4, 2>> }

NoiseInit ==
    /\ \E a \in NoiseAnchors :
           particles = << ParticleAt(a[1], a[2], 1, "emergent") >>
    /\ config = InitialConfig(1)
    /\ mouse = [x |-> 0, y |-> 0, down |-> FALSE]
    /\ shockwaves = << >>
    /\ cells = << >>
    /\ \E js \in NoiseShuffles : perm = ShufflePerm(js)
    /\ time = 0
    /\ connectionCount = 0
    /\ pc = "idle"
    /\ idx = 1
    /\ frame = 0
    /\ events = 0
    /\ nextRef = 2
    /\ spawnLog = << >>

NoiseNext ==
    \/ Rebuild(NoiseFrames)
    \/ UpdateParticle
    \/ AnimateEnd
    \/ KeydownSpace(NoiseEvents)

NoiseSpec == NoiseInit /\ [][NoiseNext]_vars

----------------------------------------------------------------------------
(* Properties *)

Range(q) == {q[k] : k \in 1..Len(q)}
IsNumber(a) == ~IsNaN(a)

\* the particles animate has already updated in the running frame
Updated == IF pc = "update" THEN 1..(idx - 1) ELSE {}

\* the particle animate updates next, when there is one
Updating == pc = "update" /\ idx <= Len(particles)

\* the spatial hash has just been rebuilt and no particle has moved since
JustRebuilt == pc = "update" /\ idx = 1

\* C1: after Particle.update() every particle's speed sqrt(vx^2 + vy^2) is at
\* most config.maxSpeed, up to the rounding of one unit of the last place.
C1_SpeedLimit ==
    \A k \in Updated :
        /\ IsNumber(particles[k].vx) /\ IsNumber(particles[k].vy)
        /\ particles[k].vx * particles[k].vx + particles[k].vy * particles[k].vy
             <= (config.maxSpeed + 1) * (config.maxSpeed + 1)

\* C2: after the boundary wrap of Particle.update() every particle's position
\* satisfies 0 <= x < width and 0 <= y < height.
C2_PositionHalfOpen ==
    \A k \in Updated :
        /\ IsNumber(particles[k].x) /\ IsNumber(particles[k].y)
        /\ 0 <= particles[k].x /\ particles[k].x < Width * Scale
        /\ 0 <= particles[k].y /\ particles[k].y < Height * Scale

\* query points and radii the query of the spatial hash is examined on
QueryPoints == { <<0, 0>>, <<95 * Scale, 100 * Scale>>,
                 <<150 * Scale, 100 * Scale>>, <<290 * Scale, 10 * Scale>> }
QueryRadii == { 30 * Scale, 60 * Scale, 120 * Scale }

Within(p, q, radius) ==
    /\ IsNumber(p.x)
    /\ DistSq(p.x - q[1], p.y - q[2]) <= radius * radius

\* C3: for the particles inserted at their current positions, any query point
\* and any radius r > 0, query(x, y, r) returns every particle whose distance
\* to (x, y) is at most r.
C3_QuerySuperset ==
    JustRebuilt =>
        \A q \in QueryPoints, radius \in QueryRadii, k \in 1..Len(particles) :
            Within(particles[k], q, radius)
                => particles[k].ref \in Range(query(cells, q[1], q[2], radius))

\* C3 witness: a particle in another cell than the query point is within the
\* radius, and the query returns it.
C3_Witness ==
    /\ JustRebuilt
    /\ \E q \in QueryPoints, radius \in QueryRadii, k \in 1..Len(particles) :
           /\ Within(particles[k], q, radius)
           /\ getKey(particles[k].x, particles[k].y) # getKey(q[1], q[2])
           /\ particles[k].ref \in Range(query(cells, q[1], q[2], radius))

\* C4: clear() followed by insert() of the same particles at the same
\* positions in the same order gives, for every query, the result sequence of
\* the first build, and the first build holds nothing from before its clear().
C4_RebuildIdempotent ==
    JustRebuilt =>
        /\ rebuild(cells, particles) = cells
        /\ cells = insertAllFrom(<< >>, particles, 1)
        /\ \A q \in QueryPoints, radius \in QueryRadii :
               query(rebuild(cells, particles), q[1], q[2], radius)
                   = query(cells, q[1], q[2], radius)

\* C4 witness: a rebuild in a later frame, over the buckets of the frame
\* before, with a query that returns particles.
C4_Witness ==
    /\ JustRebuilt
    /\ frame >= 1
    /\ \E q \in QueryPoints, radius \in QueryRadii :
           query(cells, q[1], q[2], radius) # << >>

\* the number of frame steps Shockwave.update() keeps a shockwave alive:
\* maxAge, unless the radius reaches maxRadius before
Lifetime ==
    CHOOSE n \in 1..maxAge :
        /\ (n >= maxAge \/ n * radiusStep >= maxRadius)
        /\ \A m \in 1..(n - 1) : ~(m >= maxAge \/ m * radiusStep >= maxRadius)

\* C5: a shockwave pushed onto the list is in the list for exactly Lifetime
\* consecutive frame steps (maxAge, unless the radius bound ends it before)
\* and in no frame after: the live list is, in push order, the pushes of the
\* last Lifetime frames, each with the age of the frames it has lived.
C5_ShockwaveLifetime ==
    LET live == {i \in 1..Len(spawnLog) : frame - spawnLog[i] < Lifetime}
        gone == Len(spawnLog) - Len(shockwaves)
    IN  /\ Len(shockwaves) = Cardinality(live)
        /\ \A k \in 1..Len(shockwaves) :
               /\ (gone + k) \in live
               /\ shockwaves[k].age = frame - spawnLog[gone + k]

\* C5 witness: the frame step in which a shockwave's life ends has just run,
\* and the list no longer holds it.
C5_Witness ==
    /\ pc = "idle"
    /\ Len(spawnLog) >= 1
    /\ frame = spawnLog[1] + Lifetime
    /\ Len(shockwaves) < Len(spawnLog)

\* C6: for a particle exactly at a live shockwave's origin, applyShockwaves
\* leaves the velocity unchanged for that shockwave and divides by no zero.
C6_OriginNoForce ==
    Updating =>
        \A k \in 1..Len(shockwaves) :
            LET p == particles[idx]
                w == shockwaves[k]
            IN  (IsNumber(p.x) /\ p.x = w.x /\ p.y = w.y)
                    => applyShockwave(p, <<p.vx, p.vy>>, w) = <<p.vx, p.vy>>

\* C7: during a frame the collection holds exactly the number of particles
\* the particle-count control was last set to, and every query of the frame
\* returns only particles of the collection.
C7_CountAndQueries ==
    pc = "update" =>
        /\ (IsNumber(config.particleCount) /\ config.particleCount >= 0)
               => Len(particles) = config.particleCount
        /\ \A k \in 1..Len(particles) :
               Range(query(cells, particles[k].x, particles[k].y, config.connectionRadius))
                   \subseteq {particles[j].ref : j \in 1..Len(particles)}

\* C7 witness: a frame runs with fewer particles than the frame before, whose
\* stats counted a connection between two particles, and a query of the
\* running frame returns the particle that is left.
C7_Witness ==
    /\ pc = "update"
    /\ frame >= 1
    /\ connectionCount >= 1
    /\ config.particleCount = 1
    /\ Len(particles) = 1
    /\ query(cells, particles[1].x, particles[1].y, config.connectionRadius)
         = <<particles[1].ref>>

\* C8: a particle-count request is clamped: config.particleCount is a number
\* that is not negative, and a negative request leaves the collection empty
\* with config.particleCount = 0.
C8_CountClamped ==
    /\ IsNumber(config.particleCount)
    /\ config.particleCount >= 0
    /\ Len(particles) = config.particleCount

\* C9: the config always satisfies friction in (0, 1], maxSpeed > 0 and
\* every radius a number > 0.
C9_ConfigValid ==
    /\ 0 < config.friction /\ config.friction <= Scale
    /\ config.maxSpeed > 0
    /\ \A radius \in {config.connectionRadius, config.separationRadius,
                      config.alignmentRadius, config.cohesionRadius} :
           IsNumber(radius) /\ radius > 0

\* the collection without the particle at index j
Without(ps, j) == SubSeq(ps, 1, j - 1) \o SubSeq(ps, j + 1, Len(ps))

\* C10: in every mode a particle at distance exactly 0 from another particle,
\* from the pointer or from the field centre gets no force from that pair,
\* and no NaN enters its velocity.
C10_ZeroDistanceNoForce ==
    Updating =>
        LET p == particles[idx]
        IN  IsNumber(p.x) =>
              \A r \in ForceDraws(config.mode) :
                LET v == modeForce(p, particles, config, perm, time, r)
                IN  /\ IsNumber(v[1]) /\ IsNumber(v[2])
                    /\ \A j \in 1..Len(particles) :
                           (j # idx /\ particles[j].x = p.x /\ particles[j].y = p.y)
                               => v = modeForce(p, Without(particles, j), config, perm, time, r)
                    /\ (mouse.x = p.x /\ mouse.y = p.y)
                           => applyMouseForce(p, v, mouse, config) = v
                    /\ \A w \in Rand \X Rand :
                           /\ IsNumber(emergentBehavior(p, particles, w)[1])
                           /\ IsNumber(emergentBehavior(p, particles, w)[2])
                    /\ (config.mode = "gravity" /\ Len(particles) = 1
                            /\ 2 * p.x = Width * Scale /\ 2 * p.y = Height * Scale)
                           => v = <<p.vx, p.vy>>

\* the component of particle i's velocity along the direction from particle
\* j to particle i, times the distance between the two
Away(i, j) ==
    particles[i].vx * (particles[i].x - particles[j].x)
        + particles[i].vy * (particles[i].y - particles[j].y)

\* C11: two particles in emergent mode, 10 units apart and at rest: after
\* one frame step each particle's velocity has a positive component along
\* the direction pointing away from the other particle.
C11_PairSeparates ==
    (frame = 1 /\ pc = "idle") =>
        /\ Len(particles) = 2
        /\ IsNumber(particles[1].vx) /\ IsNumber(particles[2].vx)
        /\ Away(1, 2) > 0
        /\ Away(2, 1) > 0

\* C11 witness: the frame has run on a pair that was not placed along an
\* axis, with the pointer moved next to the pair, and both particles move
\* apart.
C11_Witness ==
    /\ frame = 1 /\ pc = "idle"
    /\ mouse.x = 150 * Scale /\ mouse.y = 100 * Scale
    /\ particles[1].x # particles[2].x /\ particles[1].y # particles[2].y
    /\ particles[1].vx # 0 /\ particles[2].vx # 0
    /\ Away(1, 2) > 0 /\ Away(2, 1) > 0

\* C12: in every reachable state every particle's color is a member of
\* palettes[config.mode], the palette of the active mode.
C12_ColorInPalette ==
    \A k \in 1..Len(particles) :
        particles[k].color \in Range(palettes[config.mode])

\* C12 witness: the mode has been switched, a particle has been created
\* since, and a frame has run.
C12_Witness ==
    /\ config.mode = "neural"
    /\ frame >= 1
    /\ Len(particles) = 3
    /\ particles[3].ref >= 3
    /\ particles[1].color \in Range(palettes["neural"])
    /\ particles[3].color \in Range(palettes["neural"])

TowardPointer(p) ==
    LET u == applyMouseForce(p, <<p.vx, p.vy>>, mouse, config)
    IN  (u[1] - p.vx) * (mouse.x - p.x) + (u[2] - p.vy) * (mouse.y - p.y)

\* C14: for a particle at a distance from the pointer that is not zero and
\* less than the interaction radius, the velocity change of the pointer force
\* points toward the pointer when mouse.down is false and away from it when
\* mouse.down is true (a change too small for the last place counts as
\* either); at or beyond the radius the velocity is not changed.
C14_PointerForceDirection ==
    Updating =>
        LET p      == particles[idx]
            u      == applyMouseForce(p, <<p.vx, p.vy>>, mouse, config)
            distSq == DistSq(mouse.x - p.x, mouse.y - p.y)
            radius == mouseRadius * Scale
        IN  IsNumber(p.x) =>
                IF distSq > 0 /\ distSq < radius * radius
                THEN /\ IsNumber(u[1]) /\ IsNumber(u[2])
                     /\ (IF mouse.down THEN TowardPointer(p) <= 0
                                       ELSE TowardPointer(p) >= 0)
                ELSE u = <<p.vx, p.vy>>

\* while the particles of a frame are updated, every particle not yet updated
\* is in the bucket of the cell of its position
IndexFresh ==
    pc = "update" =>
        \A k \in idx..Len(particles) :
            LET key == getKey(particles[k].x, particles[k].y)
            IN  key \in DOMAIN cells /\ particles[k].ref \in Range(cells[key])

\* while the particles of a frame are updated, a shockwave pushed since the
\* frame before is in the list with radius 0 and age 0
SeesNewShockwaves ==
    pc = "update" =>
        \A i \in 1..Len(spawnLog) :
            spawnLog[i] = frame =>
                LET k == i - (Len(spawnLog) - Len(shockwaves))
                IN  k >= 1 /\ shockwaves[k].radius = 0 /\ shockwaves[k].age = 0

NoiseCalls(p) ==
    CASE config.mode = "emergent" ->
             { <<Round(p.x, 20), Round(p.y, 20) + (time * 3) \div 10>>,
               <<Round(p.x, 20) + 100000, Round(p.y, 20) + (time * 3) \div 10>> }
      [] config.mode = "chaos" ->
             { <<Round(p.x, 10), time>>, <<Round(p.y, 10), time + 100000>> }
      [] OTHER -> {}

\* inputs (x, y) of noise.noise, in thousandths
NoiseInputs == { <<x, y>> : x \in {300, 700, 1500}, y \in {500, 2250} }

\* C16: for the permutation table the constructor built and every input
\* (x, y), those of the frame's own calls included, noise.noise(x, y) is in
\* the closed interval [-1, 1].
C16_NoiseRange ==
    /\ \A a \in NoiseInputs :
           noise(perm, a[1], a[2]) >= -1000 /\ noise(perm, a[1], a[2]) <= 1000
    /\ (Updating /\ IsNumber(particles[idx].x)) =>
           \A a \in NoiseCalls(particles[idx]) :
               noise(perm, a[1], a[2]) >= -1000 /\ noise(perm, a[1], a[2]) <= 1000

C18_EnergyRange ==
    \A k \in 1..Len(particles) :
        /\ IsNumber(particles[k].energy)
        /\ 0 <= particles[k].energy
        /\ particles[k].energy <= Scale

\* C19 for one shockwave w and the particle p about to be updated: outside
\* the band |d - radius| < 30 the velocity is not changed; inside it the
\* added velocity is a number, points radially outward from the origin of w
\* and has the magnitude strength * (1 - age / maxAge) >= 0, all up to the
\* rounding of the last place of the velocity and of the distance.
BandForce(p, w) ==
    LET u     == applyShockwave(p, <<p.vx, p.vy>>, w)
        dx    == p.x - w.x
        dy    == p.y - w.y
        dist  == Sqrt(DistSq(dx, dy))
        force == Round(strength * Scale * (maxAge - w.age), maxAge)
        ax    == u[1] - p.vx
        ay    == u[2] - p.vy
    IN  IF Abs(dist - w.radius) < shockBand * Scale
        THEN /\ IsNumber(u[1]) /\ IsNumber(u[2])
             /\ force >= 0
             /\ ax * dx + ay * dy >= 0
             /\ Abs(ax * dy - ay * dx) <= Abs(dx) + Abs(dy)
             /\ (dist > 0 => Abs(Sqrt(DistSq(ax, ay)) - force) <= 2 + Round(force, dist))
        ELSE u = <<p.vx, p.vy>>

\* C19: a live shockwave changes a particle's velocity only when the
\* particle's distance to its origin is in the band |d - radius| < 30, and
\* then by a velocity directed radially outward with the magnitude
\* strength * (1 - age / maxAge), which is never negative.
C19_ShockwaveBand ==
    (Updating /\ IsNumber(particles[idx].x)) =>
        \A k \in 1..Len(shockwaves) : BandForce(particles[idx], shockwaves[k])

\* C20: Particle.update() on particle p modifies only p's fields x, y, vx,
\* vy, energy, pulsePhase and radius: it leaves every other particle, the
\* membership and order of the collection, the shockwaves, the spatial hash,
\* the pointer state and the config unchanged, and p.baseRadius, p.id and
\* p.color (and the identity of p) as they were.
C20_UpdateFrame ==
    [][ (idx' = idx + 1) =>
            /\ Len(particles') = Len(particles)
            /\ \A k \in 1..Len(particles) :
                   IF k = idx
                   THEN /\ particles'[k].ref = particles[k].ref
                        /\ particles'[k].baseRadius = particles[k].baseRadius
                        /\ particles'[k].id = particles[k].id
                        /\ particles'[k].color = particles[k].color
                   ELSE particles'[k] = particles[k]
            /\ UNCHANGED <<shockwaves, cells, mouse, config, perm>>
      ]_vars

\* C20 witness: in a mode other than the first, with a shockwave in the
\* list, the first of two particles has just been updated and has moved.
C20_Witness ==
    /\ pc = "update"
    /\ idx = 2
    /\ Len(particles) = 2
    /\ config.mode # "emergent"
    /\ Len(shockwaves) >= 1
    /\ IsNumber(particles[1].x)
    /\ particles[1].vx # 0
    /\ particles[1].radius # particles[1].baseRadius

\* C21: the positions and velocities read while a particle's mode force is
\* computed are those of one consistent frame: the force the second particle
\* of a frame computes, reading the collection as the first particle's
\* update left it, is the force it computes from the collection as it was
\* when the frame began.
C21_ConsistentFrame ==
    [][ (pc = "update" /\ idx = 1 /\ idx' = 2 /\ Len(particles) >= 2
            /\ IsNumber(particles[2].x)) =>
            \A r \in ForceDraws(config.mode) :
                modeForce(particles[2], particles', config, perm, time, r)
                    = modeForce(particles[2], particles, config, perm, time, r)
      ]_vars

\* the number of entries of bucket b that refer to the particle ref
Occurrences(b, ref) == Cardinality({i \in 1..Len(b) : b[i] = ref})

\* C22: immediately after the rebuild of a frame each particle of the
\* collection appears exactly once in the spatial hash, in the bucket keyed
\* by (floor(x / cellSize), floor(y / cellSize)) of its position, and the
\* buckets hold particles.length entries in all.
C22_RebuildExact ==
    JustRebuilt =>
        /\ \A k \in 1..Len(particles) :
               LET p   == particles[k]
                   key == IF IsNumber(p.x)
                          THEN <<Floor(p.x, cellSize * Scale), Floor(p.y, cellSize * Scale)>>
                          ELSE <<NaN, NaN>>
               IN  /\ key \in DOMAIN cells
                   /\ Occurrences(cells[key], p.ref) = 1
                   /\ \A other \in DOMAIN cells \ {key} :
                          Occurrences(cells[other], p.ref) = 0
        /\ SumOver([key \in DOMAIN cells |-> Len(cells[key])], DOMAIN cells)
               = Len(particles)

\* C22 witness: the rebuild of a frame that follows a count decrease: the
\* frame before counted a connection between two particles, one particle is
\* left, and the hash holds one bucket with that particle.
C22_Witness ==
    /\ JustRebuilt
    /\ frame >= 1
    /\ connectionCount >= 1
    /\ Len(particles) = 1
    /\ Cardinality(DOMAIN cells) = 1
    /\ \A key \in DOMAIN cells : cells[key] = <<particles[1].ref>>

\* the number of unordered pairs of distinct particles of ps whose distance
\* is a number less than radius
PairsWithin(ps, radius) ==
    Cardinality({ pr \in (1..Len(ps)) \X (1..Len(ps)) :
                    /\ pr[1] < pr[2]
                    /\ IsNumber(radius) /\ radius > 0
                    /\ IsNumber(ps[pr[1]].x) /\ IsNumber(ps[pr[2]].x)
                    /\ DistSq(ps[pr[1]].x - ps[pr[2]].x, ps[pr[1]].y - ps[pr[2]].y)
                         < radius * radius })

\* C23: the connection count computed for the stats at the end of a frame
\* is never smaller than the number of unordered pairs of distinct particles
\* whose distance, at the positions they hold then, is less than
\* config.connectionRadius.
C23_CountOverApproximates ==
    [][ (frame' = frame + 1) =>
            connectionCount' >= PairsWithin(particles', config'.connectionRadius)
      ]_vars

\* C24: a particle-count change to n >= 0 keeps the existing particles
\* untouched: an increase leaves them first, in their order, and appends new
\* particles after them; a decrease leaves n particles that are a contiguous
\* run from one end of the old collection, unchanged; in both cases
\* particles.length = n = config.particleCount afterwards.
C24_CountChangeKeeps ==
    [][ ( /\ pc = "idle" /\ pc' = "idle"
          /\ config'.mode = config.mode
          /\ (particles' # particles \/ config'.particleCount # config.particleCount)
          /\ IsNumber(config'.particleCount) /\ config'.particleCount >= 0 ) =>
            LET n   == config'.particleCount
                old == Len(particles)
            IN  /\ Len(particles') = n
                /\ IF n >= old
                   THEN /\ SubSeq(particles', 1, old) = particles
                        /\ \A k \in (old + 1)..n :
                               \A i \in 1..old : particles'[k].ref # particles[i].ref
                   ELSE \/ particles' = SubSeq(particles, 1, n)
                        \/ particles' = SubSeq(particles, old - n + 1, old)
      ]_vars

\* C24 witness: the count has been raised from 2 to 3 and then lowered to 1;
\* the particle that is left is the first of the initial two.
C24_Witness ==
    /\ events = 2
    /\ nextRef = 4
    /\ config.particleCount = 1
    /\ Len(particles) = 1
    /\ particles[1].ref = 1


\* C25: every shockwave in the live list has radius = 8 * age, age < maxAge
\* and radius < maxRadius; so no live shockwave is older than 49 frames, the
\* update that removes one finds the radius bound reached and not the age
\* bound, and the force factor 1 - age / maxAge of a live one is positive.
C25_LiveShockwaves ==
    \A k \in 1..Len(shockwaves) :
        LET w    == shockwaves[k]
            next == ShockwaveUpdate(w)
        IN  /\ w.radius = radiusStep * Scale * w.age
            /\ w.age < maxAge
            /\ w.radius < maxRadius * Scale
            /\ w.age <= 49
            /\ (~ShockwaveAlive(next)) =>
                   (next.age < maxAge /\ next.radius >= maxRadius * Scale)
            /\ maxAge - w.age > 0

\* C25 witness: a shockwave in the list has lived 49 frames, and the next
\* update removes it.
C25_Witness ==
    /\ pc = "idle"
    /\ \E k \in 1..Len(shockwaves) :
           /\ shockwaves[k].age = 49
           /\ ~ShockwaveAlive(ShockwaveUpdate(shockwaves[k]))


\* the i-th pushed shockwave is in the list: one of the list has its age
Live(i) ==
    /\ i \in 1..Len(spawnLog)
    /\ \E k \in 1..Len(shockwaves) : shockwaves[k].age = frame - spawnLog[i]

\* the i-th pushed shockwave has left the list
Gone(i) == i \in 1..Len(spawnLog) /\ ~Live(i)

\* the frames that are stepped are enough for the i-th pushed shockwave
Stepped(i) == i \in 1..Len(spawnLog) /\ spawnLog[i] + Lifetime <= LifeFrames

\* C26: while frames keep being stepped, every pushed shockwave is removed
\* from the list within Lifetime frames of its push; one that has left the
\* list is never in it again; and with no further press the list becomes
\* empty and stays empty.
C26_ShockwavesEnd ==
    /\ \A i \in 1..FairEvents : [](Stepped(i) => <>Gone(i))
    /\ [](\A i \in 1..Len(spawnLog) :
              frame >= spawnLog[i] + Lifetime => Gone(i))
    /\ [][ \A i \in 1..Len(spawnLog) : Gone(i) => Gone(i)' ]_vars
    /\ <>[](shockwaves = << >>
               \/ (Len(spawnLog) >= 1 /\ ~Stepped(Len(spawnLog))))

\* C26 witness: a shockwave pushed after the first frame has lived its
\* frames and left the list, which is empty, and a further frame has run.
C26_Witness ==
    /\ Len(spawnLog) >= 1
    /\ spawnLog[1] >= 1
    /\ Stepped(Len(spawnLog))
    /\ frame > spawnLog[Len(spawnLog)] + Lifetime
    /\ shockwaves = << >>


\* the mode after m in the order emergent, neural, gravity, chaos, emergent
After(m) ==
    CASE m = "emergent" -> "neural"
      [] m = "neural"   -> "gravity"
      [] m = "gravity"  -> "chaos"
      [] m = "chaos"    -> "emergent"

\* the mode k steps after m in that order
RECURSIVE Switched(_, _)
Switched(m, k) == IF k = 0 THEN m ELSE After(Switched(m, k - 1))

\* the Space presses so far: the events that were not pointer presses
Switches == events - Len(spawnLog)

\* C27: config.mode is always one of emergent, neural, gravity, chaos; each
\* Space press advances it to the next of that order, chaos to emergent, so
\* four presses in a row restore the mode; and a press changes config.mode and
\* the particles' colors only: the count, the positions, the velocities, the
\* shockwaves and everything else stay.
C27_ModeCycle ==
    /\ [](config.mode \in {"emergent", "neural", "gravity", "chaos"})
    /\ [](config.mode = Switched("emergent", Switches))
    /\ [](Switches >= 4 => config.mode = Switched("emergent", Switches - 4))
    /\ [][ (Switches' # Switches) =>
             /\ config'.mode = After(config.mode)
             /\ After(After(After(config'.mode))) = config.mode
             /\ config' = [config EXCEPT !.mode = config'.mode]
             /\ Len(particles') = Len(particles)
             /\ \A k \in 1..Len(particles) :
                    /\ particles'[k] = [particles[k] EXCEPT !.color = particles'[k].color]
                    /\ particles'[k].color \in Range(palettes[config'.mode])
             /\ UNCHANGED <<mouse, shockwaves, cells, perm, time, connectionCount,
                            pc, idx, frame, nextRef, spawnLog>>
       ]_vars

\* C27 witness: after a frame and a pointer press, four Space presses have
\* brought the mode back to the initial one, with a shockwave in the list.
C27_Witness ==
    /\ Switches = 4
    /\ frame = 1
    /\ Len(shockwaves) = 1
    /\ config.mode = "emergent"

====
